---- MODULE Spec2Model ----
(***************************************************************************)
(* Timestamp planner of ps2suitcase (sas_timestamps.py and its             *)
(* predecessor SAS-TIMESTAMPS-V2.py): name normalisation, category         *)
(* classification, lexical slot assignment, stable nudge, timeline         *)
(* projection and the planning loop of main().                             *)
(*                                                                         *)
(* Strings are sequences of one-character strings.  Python floats are      *)
(* IEEE-754 binary64 values; they are modelled bit-exactly (53-bit         *)
(* significand, round-to-nearest-even) on multi-limb naturals, because the *)
(* slot of a name is int(frac * SLOTS_PER_CATEGORY) of a rounded sum.      *)
(* A datetime is, as in Python, a day, a second of the day and a           *)
(* microsecond; days are counted from 2098-12-31 (UTC).  An integer that   *)
(* may exceed 32 bits (the bias) is kept as days and seconds, the form     *)
(* timedelta(seconds=...) gives it.                                        *)
(***************************************************************************)
EXTENDS Integers, Sequences, FiniteSets, TLC

(***************************************************************************)
(* Multi-limb naturals: NL limbs of LimbBits bits, least significant first.*)
(***************************************************************************)
LimbBits == 10 + 3
LB == 2 ^ LimbBits
\* wide enough for the exact sum of two aligned significands and for the
\* quotient bits kept by a division (2 * 53 + guard bits)
NL == (2 * 53 + 11) \div LimbBits

Pow2(k) == 2 ^ k

\* the sequence f as an explicit tuple: TLC evaluates [i \in S |-> e] lazily,
\* once per application, and a tuple once
Tuple(f) == <<>> \o f

BnZero == Tuple([i \in 1..NL |-> 0])

BnOfInt(n) == Tuple([i \in 1..NL |-> IF i <= 3 THEN (n \div (LB ^ (i - 1))) % LB ELSE 0])

BnLimb(x, i) == IF i >= 1 /\ i <= NL THEN x[i] ELSE 0

RECURSIVE BnCarry(_, _, _)
BnCarry(x, y, i) ==
  IF i = 1 THEN 0 ELSE (x[i - 1] + y[i - 1] + BnCarry(x, y, i - 1)) \div LB

BnAdd(x, y) == Tuple([i \in 1..NL |-> (x[i] + y[i] + BnCarry(x, y, i)) % LB])

RECURSIVE BnBorrow(_, _, _)
BnBorrow(x, y, i) ==
  IF i = 1 THEN 0
  ELSE IF x[i - 1] - y[i - 1] - BnBorrow(x, y, i - 1) < 0 THEN 1 ELSE 0

\* x - y for x >= y
BnSub(x, y) == Tuple([i \in 1..NL |-> (x[i] - y[i] - BnBorrow(x, y, i) + LB) % LB])

RECURSIVE BnCmpFrom(_, _, _)
BnCmpFrom(x, y, i) ==
  IF i = 0 THEN 0
  ELSE IF x[i] < y[i] THEN -1
  ELSE IF x[i] > y[i] THEN 1
  ELSE BnCmpFrom(x, y, i - 1)

BnCmp(x, y) == BnCmpFrom(x, y, NL)

BnIsZero(x) == \A i \in 1..NL : x[i] = 0

RECURSIVE BnMulCarry(_, _, _)
BnMulCarry(x, k, i) ==
  IF i = 1 THEN 0 ELSE (x[i - 1] * k + BnMulCarry(x, k, i - 1)) \div LB

\* x * k for 0 <= k < 2^17
BnMulSmall(x, k) == Tuple([i \in 1..NL |-> (x[i] * k + BnMulCarry(x, k, i)) % LB])

\* x * 2^s
BnShl(x, s) ==
  LET a == s \div LimbBits
      y == BnMulSmall(x, Pow2(s % LimbBits))
  IN  Tuple([i \in 1..NL |-> BnLimb(y, i - a)])

\* floor(x / 2^s)
BnShr(x, s) ==
  LET a == s \div LimbBits
      b == s % LimbBits
  IN  Tuple([i \in 1..NL |->
         (BnLimb(x, i + a) \div Pow2(b))
           + (BnLimb(x, i + a + 1) % Pow2(b)) * Pow2(LimbBits - b)])

\* bit j (0 = least significant) of x
BnBit(x, j) == (BnLimb(x, (j \div LimbBits) + 1) \div Pow2(j % LimbBits)) % 2

\* whether some bit below bit j of x is set
BnLowNonzero(x, j) ==
  \/ \E i \in 1..NL : i <= j \div LimbBits /\ x[i] # 0
  \/ BnLimb(x, (j \div LimbBits) + 1) % Pow2(j % LimbBits) # 0

RECURSIVE IntBitLen(_)
IntBitLen(n) == IF n = 0 THEN 0 ELSE 1 + IntBitLen(n \div 2)

RECURSIVE BnBitLenFrom(_, _)
BnBitLenFrom(x, i) ==
  IF i = 0 THEN 0
  ELSE IF x[i] # 0 THEN (i - 1) * LimbBits + IntBitLen(x[i])
  ELSE BnBitLenFrom(x, i - 1)

BnBitLen(x) == BnBitLenFrom(x, NL)

\* the value of a natural below 2^31
BnToInt(x) == x[1] + LB * x[2] + LB * LB * x[3]

(***************************************************************************)
(* binary64: a non-negative finite double is zero or m * 2^e with          *)
(* 2^52 <= m < 2^53.  Every value the planner computes is normal.          *)
(***************************************************************************)
MantBits == 50 + 3

FZero == [m |-> BnZero, e |-> 0]

FIsZero(x) == BnIsZero(x.m)

\* the double nearest to n * 2^e (+ a non-zero amount below one unit of n
\* when sticky), ties to even
FRound(n, e, sticky) ==
  LET len == BnBitLen(n)
      s   == len - MantBits
  IN  IF len = 0 THEN FZero
      ELSE IF s <= 0 THEN [m |-> BnShl(n, -s), e |-> e + s]
      ELSE
        LET q     == BnShr(n, s)
            guard == BnBit(n, s - 1) = 1
            rest  == sticky \/ BnLowNonzero(n, s - 1)
            up    == guard /\ (rest \/ BnBit(q, 0) = 1)
            q1    == IF up THEN BnAdd(q, BnOfInt(1)) ELSE q
        IN  IF BnBitLen(q1) > MantBits
              THEN [m |-> BnShr(q1, 1), e |-> e + s + 1]
              ELSE [m |-> q1, e |-> e + s]

FOfInt(k) == FRound(BnOfInt(k), 0, FALSE)

\* x * float(k), k an integer below 2^17
FMulInt(x, k) == FRound(BnMulSmall(x.m, k), x.e, FALSE)

\* long division of r * 2^k by d for r < d, one quotient bit per step:
\* st = [q, r, i] holds the quotient bits so far, the running remainder and
\* the number of steps done
BnDivStep(st, d) ==
  LET r2 == BnAdd(st.r, st.r)
      q2 == BnAdd(st.q, st.q)
  IN  IF BnCmp(r2, d) >= 0
        THEN [q |-> BnAdd(q2, BnOfInt(1)), r |-> BnSub(r2, d), i |-> st.i + 1]
        ELSE [q |-> q2, r |-> r2, i |-> st.i + 1]

\* the steps up to step k; the range is halved so that TLC's evaluation stays
\* shallow, and reading st.i evaluates each half before the next starts
RECURSIVE BnDivSteps(_, _, _)
BnDivSteps(st, d, k) ==
  IF st.i >= k THEN st
  ELSE IF st.i + 1 = k THEN BnDivStep(st, d)
  ELSE BnDivSteps(BnDivSteps(st, d, (st.i + k) \div 2), d, k)

\* float(n) / d for an integer 1 <= n < 2^31 and a double d > 0: n is scaled
\* to 53 bits, so that the quotient carries 56 or 57 bits and the remainder
\* tells whether it is exact
DivBitCount == MantBits + 4
FDivInt(n, d) ==
  LET sh == MantBits - IntBitLen(n)
      qr == BnDivSteps([q |-> BnZero, r |-> BnShl(BnOfInt(n), sh), i |-> 0],
                       BnAdd(d.m, d.m), DivBitCount)
  IN  FRound(qr.q, (1 - DivBitCount) - sh - d.e, ~BnIsZero(qr.r))

\* x + y
MaxAlign == MantBits + 7
FAdd(x, y) ==
  IF FIsZero(x) THEN y
  ELSE IF FIsZero(y) THEN x
  ELSE LET hi == IF x.e >= y.e THEN x ELSE y
           lo == IF x.e >= y.e THEN y ELSE x
           d  == hi.e - lo.e
       IN  IF d > MaxAlign THEN hi
           ELSE FRound(BnAdd(BnShl(hi.m, d), lo.m), lo.e, FALSE)

\* x + float(n) / d leaves x as it is when the quotient is below a quarter of
\* the last place of x: n < 2^IntBitLen(n) and d >= 2^(d.e + MantBits - 1), so
\* n / d < 2^(x.e - 2) and so is the double nearest to it
Absorbed(x, n, d) ==
  ~FIsZero(x) /\ d.e + x.e >= IntBitLen(n) - (MantBits - 3)

\* x + float(n) / d
FAddQuotient(x, n, d) ==
  IF Absorbed(x, n, d) THEN x ELSE FAdd(x, FDivInt(n, d))

FLess(x, y) ==
  IF FIsZero(y) THEN FALSE
  ELSE IF FIsZero(x) THEN TRUE
  ELSE x.e < y.e \/ (x.e = y.e /\ BnCmp(x.m, y.m) < 0)

FOne == FOfInt(1)

\* int(x) for 0 <= x < 2^31
FTrunc(x) ==
  IF FIsZero(x) \/ x.e <= 0 - MantBits THEN 0
  ELSE BnToInt(BnShr(x.m, 0 - x.e))

(***************************************************************************)
(* Characters and strings.  A string is a sequence of one-character        *)
(* strings; the characters are the printable ASCII ones and the tab.       *)
(* Ascii[i] is chr(31 + i); the double quote, the backslash and the        *)
(* backquote are left out (their places hold the empty string).            *)
(***************************************************************************)
Ascii == <<
  " ", "!", "", "#", "$", "%", "&", "'", "(", ")", "*", "+", ",", "-",
  ".", "/", "0", "1", "2", "3", "4", "5", "6", "7", "8", "9", ":", ";",
  "<", "=", ">", "?", "@", "A", "B", "C", "D", "E", "F", "G", "H", "I",
  "J", "K", "L", "M", "N", "O", "P", "Q", "R", "S", "T", "U", "V", "W",
  "X", "Y", "Z", "[", "", "]", "^", "_", "", "a", "b", "c", "d", "e",
  "f", "g", "h", "i", "j", "k", "l", "m", "n", "o", "p", "q", "r", "s",
  "t", "u", "v", "w", "x", "y", "z", "{", "|", "}", "~"
>>

Min(a, b) == IF a <= b THEN a ELSE b

\* ord(ch)
ord(ch) == IF ch = "\t" THEN 9 ELSE 31 + (CHOOSE i \in 1..Len(Ascii) : Ascii[i] = ch)

\* str.upper() on one character
UpperChar(ch) ==
  IF ord(ch) >= 97 /\ ord(ch) <= 122 THEN Ascii[ord(ch) - 32 - 31] ELSE ch

\* str.upper()
upper(s) == Tuple([i \in 1..Len(s) |-> UpperChar(s[i])])

\* the characters str.strip() removes
IsSpace(ch) == ch \in {" ", "\t"}

\* str.strip()
strip(s) ==
  LET keep == {i \in 1..Len(s) : ~IsSpace(s[i])}
  IN  IF keep = {} THEN <<>>
      ELSE SubSeq(s, CHOOSE i \in keep : \A j \in keep : i <= j,
                     CHOOSE i \in keep : \A j \in keep : i >= j)

\* s.startswith(p)
startswith(s, p) == Len(s) >= Len(p) /\ SubSeq(s, 1, Len(p)) = p

NotDash(ch) == ch # "-"

\* s.replace("-", "")
StripDashes(s) == SelectSeq(s, NotDash)

(***************************************************************************)
(* Category + name -> slot mapping                                         *)
(***************************************************************************)
CHARSET == <<
  " ", "0", "1", "2", "3", "4", "5", "6", "7", "8", "9",
  "A", "B", "C", "D", "E", "F", "G", "H", "I", "J", "K", "L", "M",
  "N", "O", "P", "Q", "R", "S", "T", "U", "V", "W", "X", "Y", "Z",
  "_", "-", "." >>

BASE == Len(CHARSET)

\* CHAR_INDEX.get(ch, BASE - 1)
CHAR_INDEX_get(ch) ==
  IF \E i \in 1..BASE : CHARSET[i] = ch
    THEN (CHOOSE i \in 1..BASE : CHARSET[i] = ch) - 1
    ELSE BASE - 1

\* s[:128]
SigLen == 128

\* one iteration of the loop of _lex_fraction over s: st = [total, scale, i],
\* i the number of characters consumed
LexStep(st, s) ==
  LET scale == FMulInt(st.scale, BASE)
      code  == CHAR_INDEX_get(s[st.i + 1])
  IN  [total |-> FAddQuotient(st.total, code + 1, scale),
       scale |-> scale, i |-> st.i + 1]

\* the iterations up to character n (halved ranges, as in BnDivSteps)
RECURSIVE LexLoop(_, _, _)
LexLoop(st, s, n) ==
  IF st.i >= n THEN st
  ELSE IF st.i + 1 = n THEN LexStep(st, s)
  ELSE LexLoop(LexLoop(st, s, (st.i + n) \div 2), s, n)

\* a variant of _lex_fraction that reads the payload from its end
\* (Reversed: the characters of s, last first)
Reversed(s) == Tuple([i \in 1..Len(s) |-> s[Len(s) + 1 - i]])

LexFractionFromEnd(payload) ==
  LexLoop([total |-> FZero, scale |-> FOne, i |-> 0],
          Reversed(upper(payload)), Min(Len(payload), SigLen)).total

_lex_fraction(payload) ==
  LET s == upper(payload)
  IN  LexLoop([total |-> FZero, scale |-> FOne, i |-> 0],
              s, Min(Len(s), SigLen)).total

(***************************************************************************)
(* User config                                                             *)
(***************************************************************************)
DEFAULT_SECONDS_BETWEEN_ITEMS == 2
DEFAULT_SLOTS_PER_CATEGORY == 43200

K_APP_ == <<"A", "P", "P", "_">>
K_APPS == <<"A", "P", "P", "S">>
K_PS1_ == <<"P", "S", "1", "_">>
K_EMU_ == <<"E", "M", "U", "_">>
K_GME_ == <<"G", "M", "E", "_">>
K_DST_ == <<"D", "S", "T", "_">>
K_DBG_ == <<"D", "B", "G", "_">>
K_RAA_ == <<"R", "A", "A", "_">>
K_RTE_ == <<"R", "T", "E", "_">>
K_DEFAULT == <<"D", "E", "F", "A", "U", "L", "T">>
K_SYS_ == <<"S", "Y", "S", "_">>
K_SYS == <<"S", "Y", "S">>
K_ZZY_ == <<"Z", "Z", "Y", "_">>
K_ZZZ_ == <<"Z", "Z", "Z", "_">>

\* a variant of the order with DEFAULT moved to the end
CategoryOrderDefaultLast == <<
  K_APP_, K_APPS, K_PS1_, K_EMU_, K_GME_, K_DST_, K_DBG_, K_RAA_, K_RTE_,
  K_SYS_, K_ZZY_, K_ZZZ_, K_DEFAULT >>

\* Category order (newest -> oldest)
CATEGORY_ORDER == <<
  K_APP_, K_APPS, K_PS1_, K_EMU_, K_GME_, K_DST_, K_DBG_, K_RAA_, K_RTE_,
  K_DEFAULT, K_SYS_, K_ZZY_, K_ZZZ_ >>

\* CATEGORY_INDEX[key]
CATEGORY_INDEX(key) ==
  (CHOOSE i \in 1..Len(CATEGORY_ORDER) : CATEGORY_ORDER[i] = key) - 1

\* s.split(","): the pieces between consecutive commas
Split(s) ==
  LET cuts == {0, Len(s) + 1} \cup {i \in 1..Len(s) : s[i] = ","}
  IN  {SubSeq(s, a + 1, b - 1) :
         <<a, b>> \in {c \in cuts \X cuts :
                         c[1] < c[2] /\ ~\E m \in cuts : c[1] < m /\ m < c[2]}}

_parse_csv(s) ==
  IF s = <<>> THEN {}
  ELSE {upper(strip(x)) : x \in {y \in Split(s) : strip(y) # <<>>}}

\* UNPREFIXED_MAP of a csv table (a sequence of <<key, csv>> in dict order)
ParseTable(table) ==
  Tuple([i \in 1..Len(table) |->
           [key |-> table[i][1], names |-> _parse_csv(table[i][2])]])

_effective_category_key(eff) ==
  IF startswith(eff, K_APP_) THEN K_APP_
  ELSE IF eff = K_APPS THEN K_APPS
  ELSE IF startswith(eff, K_PS1_) THEN K_PS1_
  ELSE IF startswith(eff, K_EMU_) THEN K_EMU_
  ELSE IF startswith(eff, K_GME_) THEN K_GME_
  ELSE IF startswith(eff, K_DST_) THEN K_DST_
  ELSE IF startswith(eff, K_DBG_) THEN K_DBG_
  ELSE IF startswith(eff, K_RAA_) THEN K_RAA_
  ELSE IF startswith(eff, K_RTE_) THEN K_RTE_
  ELSE IF startswith(eff, K_SYS_) \/ eff = K_SYS THEN K_SYS_
  ELSE IF startswith(eff, K_ZZY_) THEN K_ZZY_
  ELSE IF startswith(eff, K_ZZZ_) THEN K_ZZZ_
  ELSE K_DEFAULT

_category_label_for_effective(eff) ==
  LET key == _effective_category_key(eff)
  IN  IF key = K_DEFAULT THEN K_DEFAULT
      ELSE IF key = K_APPS THEN key ELSE key \o <<"*">>

\* Use only the part after the category key, ignoring dashes for ordering.
_payload_for_effective(eff) ==
  LET key == _effective_category_key(eff)
  IN  IF key = K_APPS THEN K_APPS
      ELSE IF key = K_DEFAULT THEN StripDashes(eff)
      ELSE StripDashes(IF startswith(eff, key)
                         THEN SubSeq(eff, Len(key) + 1, Len(eff)) ELSE eff)

\* 2) Built-in defaults and 3) otherwise, leave as-is
BuiltinDefault(n) ==
  IF n \in {<<"O", "S", "D", "X", "M", "B">>, <<"X", "E", "B", "P", "L", "U", "S">>} THEN K_APP_ \o n
  ELSE IF n \in {<<"R", "E", "S", "T", "A", "R", "T">>, <<"P", "O", "W", "E", "R", "O", "F", "F">>} THEN K_RAA_ \o n
  ELSE IF n = <<"N", "E", "U", "T", "R", "I", "N", "O">> THEN K_RTE_ \o n
  ELSE IF n = <<"B", "O", "O", "T">> THEN <<"S", "Y", "S", "_", "B", "O", "O", "T">>
  ELSE IF n = <<"E", "X", "P", "L", "O", "I", "T", "S">> THEN <<"Z", "Z", "Y", "_", "E", "X", "P", "L", "O", "I", "T", "S">>
  ELSE IF n \in {<<"B", "M">>, <<"M", "A", "T", "R", "I", "X", "T", "E", "A", "M">>, <<"O", "P", "L">>} THEN K_ZZZ_ \o n
  ELSE n

\* _normalize_name_for_rules over the alias map `map`: the first category (in
\* dict order) whose names hold n decides
Aliased(key, n) == IF key = K_APPS THEN K_APPS ELSE key \o n

\* the categories of map, by position, whose names hold n
Hits(map, n) == {i \in 1..Len(map) : n \in map[i].names}

\* a variant of Resolve in which the last category listing n decides
ResolveLast(map, n, hits) ==
  IF hits # {}
    THEN Aliased(map[CHOOSE i \in hits : \A j \in hits : i >= j].key, n)
    ELSE BuiltinDefault(n)

Resolve(map, n, hits) ==
  IF hits # {}
    THEN Aliased(map[CHOOSE i \in hits : \A j \in hits : i <= j].key, n)
    ELSE BuiltinDefault(n)

NormalizeUpper(map, n) == Resolve(map, n, Hits(map, n))

NormalizeWith(map, name) == NormalizeUpper(map, upper(strip(name)))

\* FNV-1a on 32 bits, h kept as two 16-bit halves: h = hi * 2^16 + lo
RECURSIVE BitXor(_, _)
BitXor(a, b) ==
  IF a = 0 THEN b
  ELSE IF b = 0 THEN a
  ELSE ((a + b) % 2) + 2 * BitXor(a \div 2, b \div 2)

\* 2166136261 = 0x811C9DC5
FNV_OFFSET == [hi |-> 33052, lo |-> 40389, i |-> 0]

\* h ^= ord(ch); h = (h * 16777619) & 0xFFFFFFFF, with 16777619 = 2^24 + 403
HashStep(h, s) ==
  LET lo  == BitXor(h.lo, ord(s[h.i + 1]))
      plo == lo * 403
      phi == h.hi * 403 + (plo \div Pow2(16)) + (lo % Pow2(8)) * Pow2(8)
  IN  [hi |-> phi % Pow2(16), lo |-> plo % Pow2(16), i |-> h.i + 1]

RECURSIVE HashLoop(_, _, _)
HashLoop(h, s, n) ==
  IF h.i >= n THEN h
  ELSE IF h.i + 1 = n THEN HashStep(h, s)
  ELSE HashLoop(HashLoop(h, s, (h.i + n) \div 2), s, n)

\* Very small deterministic hash returning 0 or 1.
_stable_hash01(s) == HashLoop(FNV_OFFSET, s, Len(s)).lo % 2

(***************************************************************************)
(* The inputs of a run: the alias table of the USER CONFIG block, the      *)
(* command line, the time zone of the host and the folders found.          *)
(***************************************************************************)
\* UNPREFIXED_IN_CATEGORY_CSV as the source has it
SourceAliasCsv == <<
  <<K_APP_, <<"O", "S", "D", "X", "M", "B", ",", " ", "X", "E", "B", "P", "L", "U", "S">>>>,
  <<K_APPS, <<>>>>,
  <<K_PS1_, <<>>>>,
  <<K_EMU_, <<>>>>,
  <<K_GME_, <<>>>>,
  <<K_DST_, <<>>>>,
  <<K_DBG_, <<>>>>,
  <<K_RAA_, <<"R", "E", "S", "T", "A", "R", "T", ",", " ", "P", "O", "W", "E", "R", "O", "F", "F">>>>,
  <<K_RTE_, <<"N", "E", "U", "T", "R", "I", "N", "O">>>>,
  <<K_SYS_, <<"B", "O", "O", "T">>>>,
  <<K_ZZY_, <<"E", "X", "P", "L", "O", "I", "T", "S">>>>,
  <<K_ZZZ_, <<"B", "M", ",", " ", "M", "A", "T", "R", "I", "X", "T", "E", "A", "M", ",", " ", "O", "P", "L">>>> >>

\* the table with every list emptied: only the built-in defaults apply
EmptyAliasCsv == <<
  <<K_APP_, <<>>>>,
  <<K_APPS, <<>>>>,
  <<K_PS1_, <<>>>>,
  <<K_EMU_, <<>>>>,
  <<K_GME_, <<>>>>,
  <<K_DST_, <<>>>>,
  <<K_DBG_, <<>>>>,
  <<K_RAA_, <<>>>>,
  <<K_RTE_, <<>>>>,
  <<K_SYS_, <<>>>>,
  <<K_ZZY_, <<>>>>,
  <<K_ZZZ_, <<>>>> >>

\* a table edited by the user: an alias of APPS, lower case and blanks, an
\* empty item, and X listed under SYS_ and under ZZZ_
EditedAliasCsv == <<
  <<K_APP_, <<"O", "S", "D", "X", "M", "B">>>>,
  <<K_APPS, <<"h", "b">>>>,
  <<K_PS1_, <<>>>>,
  <<K_EMU_, <<>>>>,
  <<K_GME_, <<>>>>,
  <<K_DST_, <<>>>>,
  <<K_DBG_, <<>>>>,
  <<K_RAA_, <<>>>>,
  <<K_RTE_, <<>>>>,
  <<K_SYS_, <<"B", "O", "O", "T", ",", " ", "x">>>>,
  <<K_ZZY_, <<>>>>,
  <<K_ZZZ_, <<" ", "X", " ", ",", "b", "m", ",", ",">>>> >>

AliasTables == {SourceAliasCsv, EmptyAliasCsv, EditedAliasCsv}

\* UNPREFIXED_MAP = {k: _parse_csv(v) for k, v in ...}, for each table
SourceAliasMap == ParseTable(SourceAliasCsv)
AliasMaps == {ParseTable(t) : t \in AliasTables}

\* the names of the example of the documentation
ExampleFolders == <<<<"O", "S", "D", "X", "M", "B">>, <<"B", "O", "O", "T">>, <<"R", "A", "N", "D", "O", "M", "F", "O", "L", "D", "E", "R">>, <<"Z", "Z", "Z", "_", "C", "U", "S", "T", "O", "M">>>>

NamePool == {
  <<" ", "b", "o", "o", "t">>,
  <<"S", "Y", "S", "_", "-">>,
  <<".", "B">>,
  <<"A", ".", ".", "B">>,
  <<"B">>,
  <<"A", "A", "8">>,
  <<"A", "A", "9">>,
  <<"A", "A", "-", "8">>,
  <<"A", "P", "P", "S">>,
  <<"S", "Y", "S">>,
  <<"h", "b">>,
  <<"x">> }

\* the names of the runs that plan several folders
PairPool == {
  <<"S", "Y", "S", "_", "-">>,
  <<".", "B">>,
  <<"A", ".", ".", "B">>,
  <<"B">>,
  <<"A", "A", "8">>,
  <<"A", "A", "9">> }

MaxFolders == 2

\* the duplicate-free lists of at most n names of pool
RECURSIVE ListsOver(_, _)
ListsOver(pool, n) ==
  IF n = 0 THEN {<<>>}
  ELSE LET shorter == ListsOver(pool, n - 1)
       IN  shorter \cup
           {Append(lx[1], lx[2]) : lx \in
              {lx \in shorter \X pool :
                 Len(lx[1]) = n - 1 /\ \A i \in 1..Len(lx[1]) : lx[1][i] # lx[2]}}

SecondsChoices == {0, 1, 2}
SlotsChoices == {0, 1, DEFAULT_SLOTS_PER_CATEGORY, 2 * DEFAULT_SLOTS_PER_CATEGORY}
DaySeconds == 24 * 3600

\* datetime.min and datetime.max: the days 0001-01-01 and 9999-12-31, of
\* ordinals 1 and 3652059; 2098-12-31 has ordinal 766279
MinDay == 1 - 766279
MaxDay == 3652059 - 766279

\* timedelta.max.days
MaxDeltaDays == 1000000000 - 1

\* the Python int n, as n \div 86400 days and n % 86400 seconds
WideInt(n) == [days |-> n \div DaySeconds, seconds |-> n % DaySeconds]

\* -3563 counters a +59m23s skew (the example of --ps2-bias-seconds)
BiasChoices == {WideInt(0), WideInt(0 - 3563)}
\* UTC and UTC-8 (PST), as seconds east of UTC
TimeZones == {0, 0 - 8 * 3600}

\* The local time zones of the hosts: UTC, and US Pacific time, which is UTC-8
\* in winter (PST) and UTC-7 in summer (PDT).  datetime.now().astimezone()
\* has the offset in force at the moment of the call.
LocalZones == {{0}, {0 - 8 * 3600, 0 - 7 * 3600}}

ZoneOf(offset) == CHOOSE z \in LocalZones : offset \in z

ArgsSet ==
  [seconds_between_items : SecondsChoices,
   slots_per_category    : SlotsChoices,
   stable_nudge          : BOOLEAN,
   timeline              : {"local-forward", "fixed-utc"},
   fat_safe              : BOOLEAN,
   ps2_bias_seconds      : BiasChoices,
   dry_run               : BOOLEAN]

\* the command line without options
DefaultArgs ==
  {a \in ArgsSet :
     /\ a.seconds_between_items = DEFAULT_SECONDS_BETWEEN_ITEMS
     /\ a.slots_per_category = DEFAULT_SLOTS_PER_CATEGORY
     /\ ~a.stable_nudge /\ a.timeline = "local-forward"
     /\ ~a.fat_safe /\ a.ps2_bias_seconds = WideInt(0)}

(***************************************************************************)
(* The file system below the root folders.  A path is the sequence of its  *)
(* components below base_path.  A tree gives, for each directory os.walk   *)
(* visits (as its path below the root folder), the dirnames and filenames  *)
(* os.walk yields for it.                                                  *)
(***************************************************************************)
DirListing(dirnames, filenames) == [dirnames |-> dirnames, filenames |-> filenames]

\* a root folder without contents
NoContents == (<<>> :> DirListing(<<>>, <<>>))

\* one file and one directory at each of two levels, the last directory empty
NestedContents ==
  (<<>> :> DirListing(<< <<"d", "1">> >>, << <<"f", "1">> >>))
  @@ (<< <<"d", "1">> >> :> DirListing(<< <<"d", "2">> >>, << <<"f", "2">> >>))
  @@ (<< <<"d", "1">>, <<"d", "2">> >> :> DirListing(<<>>, <<>>))

\* two files, a directory and a link to a directory, which os.walk lists among
\* the dirnames and does not visit
FlatContents ==
  (<<>> :> DirListing(<< <<"d", "1">>, <<"l", "1">> >>, << <<"f", "1">>, <<"f", "2">> >>))
  @@ (<< <<"d", "1">> >> :> DirListing(<<>>, <<>>))

Trees == {NoContents, NestedContents, FlatContents}

Range(s) == {s[i] : i \in 1..Len(s)}

\* the paths, below the root folder, of everything a tree lists
Contents(t) ==
  UNION {{Append(dirpath, n) : n \in Range(t[dirpath].dirnames) \cup Range(t[dirpath].filenames)} :
           dirpath \in DOMAIN t}

\* the root folders and everything in them
PathsOf(folders, t) ==
  UNION {{<<folders[i]>>} \cup {<<folders[i]>> \o p : p \in Contents(t)} :
           i \in 1..Len(folders)}

\* the root folders of the runs whose contents and failures are explored
ApplyPool == {<<"B">>, <<"A", "A", "8">>}

MaxFailing == 2

\* the sets of paths on which setting the times may fail in one run
FailureSets(paths) == {x \in SUBSET paths : Cardinality(x) <= MaxFailing}

\* biases that take the instants to the ends of the range of datetime: to ten
\* days before datetime.min, to the last second of the tenth day before
\* datetime.max, and beyond what a timedelta holds
ExtremeBiases == {
  [days |-> MinDay - 10, seconds |-> 0],
  [days |-> MaxDay - 10, seconds |-> DaySeconds - 1],
  [days |-> MaxDeltaDays + 1, seconds |-> 0] }

\* the root folders of the runs that are repeated
RerunPool == {<<"B">>, <<"S", "Y", "S", "_", "-">>, <<"A", "A", "8">>}

\* Names that collide: AA8 and aa8 normalize to one effective name; AA-8 is
\* another effective name with the payload of AA8, that is in its slot.
CollisionPool == {<<"A", "A", "8">>, <<"a", "a", "8">>, <<"A", "A", "-", "8">>}

\* n times the character ch
Repeat(ch, n) == [i \in 1..n |-> ch]

\* Pairs of folder names longer than s[:128] keeps, the same in their first
\* 128 characters: without and with a category prefix, with a dash, and with
\* nothing but dashes before the character that differs.
LongPairs == {
  <<Repeat("A", SigLen) \o <<"8">>, Repeat("A", SigLen) \o <<"9">>>>,
  <<<<"A", "P", "P", "_">> \o Repeat("A", SigLen - 4) \o <<"8">>,
    <<"A", "P", "P", "_">> \o Repeat("A", SigLen - 4) \o <<"9">>>>,
  <<<<"A", "P", "P", "_">> \o Repeat("A", SigLen) \o <<"8">>,
    <<"A", "P", "P", "_">> \o Repeat("A", SigLen) \o <<"9">>>>,
  <<<<"-">> \o Repeat("A", SigLen) \o <<"8">>,
    <<"-">> \o Repeat("A", SigLen) \o <<"9">>>>,
  <<Repeat("-", SigLen) \o <<"A">>, Repeat("-", SigLen) \o <<"B">>>> }

LongPool == UNION {{ln[1], ln[2]} : ln \in LongPairs}

\* The runs explored: every command line on no folder, on one folder and on
\* the folders of the example; every valid dry run without bias on several
\* folders; every alias table under the default command line.
\* (root folders without contents, no failure, one run)
PlainRuns ==
  [map : {SourceAliasMap}, tz : TimeZones, args : ArgsSet,
   folders : ListsOver(NamePool, 1) \cup {ExampleFolders},
   tree : {NoContents}, failing : {{}}, reruns : {0}]
  \cup
  [map : {SourceAliasMap}, tz : {0},
   args : {a \in ArgsSet : a.seconds_between_items > 0 /\ a.slots_per_category > 0
                           /\ a.dry_run /\ a.ps2_bias_seconds = WideInt(0)},
   folders : ListsOver(PairPool, MaxFolders),
   tree : {NoContents}, failing : {{}}, reruns : {0}]
  \cup
  [map : AliasMaps, tz : {0}, args : DefaultArgs,
   folders : ListsOver(NamePool, 1),
   tree : {NoContents}, failing : {{}}, reruns : {0}]

\* the default command line applied to folders with contents, with failures
ApplyRuns ==
  UNION {{[map |-> SourceAliasMap, tz |-> 0, args |-> aft[1], folders |-> aft[2],
           tree |-> aft[3], failing |-> x, reruns |-> 0] :
            x \in FailureSets(PathsOf(aft[2], aft[3]))} :
           aft \in {a \in DefaultArgs : ~a.dry_run} \X ListsOver(ApplyPool, MaxFolders) \X Trees}

\* the tool run once and then once more, with the same command line, in the
\* same time zone, on the same folders, on some of them or in another order;
\* with the default spacing, with and without a bias, an extreme one too
RerunRuns ==
  [map : {SourceAliasMap}, tz : TimeZones,
   args : [seconds_between_items : {DEFAULT_SECONDS_BETWEEN_ITEMS},
           slots_per_category    : {DEFAULT_SLOTS_PER_CATEGORY},
           stable_nudge          : {FALSE},
           timeline              : {"local-forward", "fixed-utc"},
           fat_safe              : BOOLEAN,
           ps2_bias_seconds      : BiasChoices \cup ExtremeBiases,
           dry_run               : {FALSE}],
   folders : ListsOver(RerunPool, MaxFolders),
   tree : {NoContents}, failing : {{}}, reruns : {1}]

\* the default command line, dry run or not, on two long names
LongRuns ==
  [map : {SourceAliasMap}, tz : {0}, args : DefaultArgs, folders : LongPairs,
   tree : {NoContents}, failing : {{}}, reruns : {0}]

\* every valid command line without bias that applies the plan, on names
\* that collide
CollisionRuns ==
  [map : {SourceAliasMap}, tz : {0},
   args : {a \in ArgsSet : a.seconds_between_items > 0 /\ a.slots_per_category > 0
                           /\ ~a.dry_run /\ a.ps2_bias_seconds = WideInt(0)},
   folders : ListsOver(CollisionPool, MaxFolders),
   tree : {NoContents}, failing : {{}}, reruns : {0}]

Runs == PlainRuns \cup ApplyRuns \cup RerunRuns \cup LongRuns \cup CollisionRuns

(***************************************************************************)
(* The encoder on its own: the payloads it is applied to.                  *)
(***************************************************************************)
\* A and B are neighbours of the alphabet, "." is its last symbol and b is in
\* lower case
EncAlphabet == {"A", "b", "."}

\* payloads with a character outside the alphabet
EncOutside == {<<"!">>, <<"A", "!">>, <<"~", "b">>}

MaxLen == 3

RECURSIVE StringsUpTo(_)
StringsUpTo(n) ==
  IF n = 0 THEN {<<>>}
  ELSE LET shorter == StringsUpTo(n - 1)
       IN  shorter \cup {Append(w, ch) : <<w, ch>> \in
                           {wc \in shorter \X EncAlphabet : Len(wc[1]) = n - 1}}

EncPayloads == StringsUpTo(MaxLen) \cup EncOutside

\* every payload met, and its fraction, computed once
PayloadPool ==
  EncPayloads \cup
  {_payload_for_effective(NormalizeWith(mn[1], mn[2])) :
     mn \in AliasMaps \X (NamePool \cup PairPool \cup LongPool \cup
                                  {ExampleFolders[i] : i \in 1..Len(ExampleFolders)})}

LexCache == [p \in PayloadPool |-> _lex_fraction(p)] @@ <<>>

VARIABLES
  UNPREFIXED_MAP,          \* alias map, parsed at import
  SECONDS_BETWEEN_ITEMS,   \* module globals set by _recompute_spacing
  SLOTS_PER_CATEGORY,
  CATEGORY_BLOCK_SECONDS,
  ENABLE_STABLE_NUDGE,
  args,                    \* the parsed command line
  utcoffset,               \* the host's local time zone, seconds east of UTC
  root_folders,            \* os.listdir(base_path), the directories
  pc,                      \* where main() is
  idx,                     \* index of the loop over root_folders / plan
  plan,
  plan_sorted,             \* the rows _write_dryrun writes
  calls,                   \* the calls of _set_times_windows, in order
  tree,                    \* what os.walk finds below each root folder
  failing,                 \* the paths on which _set_times_windows raises
  reruns,                  \* how many more times the tool is run
  earlier,                 \* the plan of the run before this one
  enc_in,                  \* the payloads the encoder is applied to
  enc_out,                 \* their fractions
  snap_in,                 \* the datetime _snap_even_second is applied to
  snap_out                 \* the result, and the result snapped again

\* the file system and the earlier run
hostvars == <<tree, failing, reruns, earlier>>

\* the functions called on their own
callvars == <<enc_in, enc_out, snap_in, snap_out>>

vars == <<UNPREFIXED_MAP, SECONDS_BETWEEN_ITEMS, SLOTS_PER_CATEGORY,
          CATEGORY_BLOCK_SECONDS, ENABLE_STABLE_NUDGE, args, utcoffset,
          root_folders, pc, idx, plan, plan_sorted, calls, hostvars, callvars>>

\* the variables of main()
mainvars == <<UNPREFIXED_MAP, SECONDS_BETWEEN_ITEMS, SLOTS_PER_CATEGORY,
              CATEGORY_BLOCK_SECONDS, ENABLE_STABLE_NUDGE, args, utcoffset,
              root_folders, pc, idx, plan, plan_sorted, calls, hostvars>>

_normalize_name_for_rules(name) == NormalizeWith(UNPREFIXED_MAP, name)

_category_priority_index(effective) ==
  CATEGORY_INDEX(_effective_category_key(effective))

\* _lex_fraction(payload), looked up when it was computed before
LexFraction(payload) ==
  IF payload \in DOMAIN LexCache THEN LexCache[payload] ELSE _lex_fraction(payload)

\* a variant of Saturate that leaves the slot as computed
Unsaturated(slot) == slot

\* if slot >= SLOTS_PER_CATEGORY: slot = SLOTS_PER_CATEGORY - 1
Saturate(slot) ==
  IF slot >= SLOTS_PER_CATEGORY THEN SLOTS_PER_CATEGORY - 1 ELSE slot

\* int(frac * SLOTS_PER_CATEGORY)
SlotOfFraction(frac) == FTrunc(FMulInt(frac, SLOTS_PER_CATEGORY))

_slot_index_within_category(effective) ==
  Saturate(SlotOfFraction(LexFraction(_payload_for_effective(effective))))

\* a variant of Nudge that nudges whether or not the nudge is enabled
NudgeAlways(eff) == _stable_hash01(eff)

\* a variant of Nudge that never nudges
NudgeNever(eff) == 0

\* Return (offset_seconds, cat_idx, slot, effective_name).
\* nudge = _stable_hash01(eff) if ENABLE_STABLE_NUDGE else 0
Nudge(eff) == IF ENABLE_STABLE_NUDGE THEN _stable_hash01(eff) ELSE 0

\* cat_offset + name_offset
OffsetOf(eff, cat_idx, slot, nudge) ==
  [offset_sec |-> cat_idx * CATEGORY_BLOCK_SECONDS
                  + ((slot * SECONDS_BETWEEN_ITEMS) + nudge),
   cat_idx |-> cat_idx, slot |-> slot, eff |-> eff]

OffsetOfEffective(eff) ==
  OffsetOf(eff, _category_priority_index(eff), _slot_index_within_category(eff),
           Nudge(eff))

_deterministic_offset_seconds(folder_name) ==
  OffsetOfEffective(_normalize_name_for_rules(folder_name))

(***************************************************************************)
(* Timestamp planners.  A datetime is [d, s, us]: the day counted from     *)
(* 2098-12-31, the second of the day and the microsecond, in UTC.  An      *)
(* operation that raises gives OverflowError instead of a datetime.        *)
(***************************************************************************)
OverflowError == [exc |-> "OverflowError"]

Raised(x) == DOMAIN x = {"exc"}

\* timedelta(seconds=n), n given as days and seconds
timedelta(n) ==
  IF n.days < 0 - MaxDeltaDays \/ n.days > MaxDeltaDays THEN OverflowError ELSE n

\* a datetime of day d and second s of that day, s not yet within the day
Normalized(d, s, us) ==
  [d |-> d + (s \div DaySeconds), s |-> s % DaySeconds, us |-> us]

\* "date value out of range"
RangeChecked(dt) == IF MinDay <= dt.d /\ dt.d <= MaxDay THEN dt ELSE OverflowError

\* dt + delta
AddDelta(dt, delta) ==
  IF Raised(delta) THEN delta
  ELSE RangeChecked(Normalized(dt.d + delta.days, dt.s + delta.seconds, dt.us))

\* datetime(2099, 1, 1, 7, 59, 59, tzinfo=timezone.utc)
FIXED_BASE_UTC == [d |-> 1, s |-> 7 * 3600 + 59 * 60 + 59, us |-> 0]

\* datetime(2098, 12, 31, 0, 0, 0) in the local zone, as an instant
_anchor_local_datetime == Normalized(0, 0 - utcoffset, 0)

\* dt + timedelta(seconds=n)
AddSeconds(dt, n) == AddDelta(dt, timedelta(WideInt(n)))

\* Return (utc_dt, effective_name, category_label, cat_idx, slot_idx, offset_sec).
\* FIXED_BASE_UTC - timedelta(seconds=offset_sec), or
\* _anchor_local_datetime() + timedelta(seconds=offset_sec), as UTC
Projected(d, timeline) ==
  [ts |-> IF timeline = "fixed-utc"
            THEN AddSeconds(FIXED_BASE_UTC, 0 - d.offset_sec)
            ELSE AddSeconds(_anchor_local_datetime, d.offset_sec),
   eff |-> d.eff,
   cat_lbl |-> _category_label_for_effective(d.eff),
   cat_idx |-> d.cat_idx, slot_idx |-> d.slot, offset_sec |-> d.offset_sec]

_planned_timestamp_for_folder(folder_name, timeline) ==
  Projected(_deterministic_offset_seconds(folder_name), timeline)

(***************************************************************************)
(* SAS-TIMESTAMPS-V2.py, the original UTC script: its configuration is     *)
(* fixed in the file and its nudge is always applied.  Its functions from  *)
(* _effective_category_key to _stable_hash01 have the text of the merged   *)
(* script's; those that read the configuration are given here.             *)
(***************************************************************************)
V2_SECONDS_BETWEEN_ITEMS == 1

V2_SLOTS_PER_CATEGORY == 86400

V2_UNPREFIXED_IN_CATEGORY_CSV == <<
  <<K_APP_, <<"O", "S", "D", "X", "M", "B", ",", " ", "X", "E", "B", "P", "L", "U", "S">>>>,
  <<K_APPS, <<>>>>,
  <<K_PS1_, <<>>>>,
  <<K_EMU_, <<>>>>,
  <<K_GME_, <<>>>>,
  <<K_DST_, <<>>>>,
  <<K_DBG_, <<>>>>,
  <<K_RAA_, <<"R", "E", "S", "T", "A", "R", "T", ",", " ", "P", "O", "W", "E", "R", "O", "F", "F">>>>,
  <<K_RTE_, <<"N", "E", "U", "T", "R", "I", "N", "O">>>>,
  <<K_SYS_, <<"B", "O", "O", "T">>>>,
  <<K_ZZY_, <<"E", "X", "P", "L", "O", "I", "T", "S">>>>,
  <<K_ZZZ_, <<"B", "M", ",", " ", "M", "A", "T", "R", "I", "X", "T", "E", "A", "M", ",", " ", "O", "P", "L">>>> >>

V2_UNPREFIXED_MAP == ParseTable(V2_UNPREFIXED_IN_CATEGORY_CSV)

V2_CATEGORY_BLOCK_SECONDS == V2_SLOTS_PER_CATEGORY * V2_SECONDS_BETWEEN_ITEMS

V2_normalize_name_for_rules(name) == NormalizeWith(V2_UNPREFIXED_MAP, name)

\* slot = int(frac * SLOTS_PER_CATEGORY)
\* if slot >= SLOTS_PER_CATEGORY: slot = SLOTS_PER_CATEGORY - 1
V2_saturated(slot) ==
  IF slot >= V2_SLOTS_PER_CATEGORY THEN V2_SLOTS_PER_CATEGORY - 1 ELSE slot

V2_slot_index_within_category(effective) ==
  V2_saturated(FTrunc(FMulInt(LexFraction(_payload_for_effective(effective)),
                              V2_SLOTS_PER_CATEGORY)))

\* nudge = _stable_hash01(eff)
\* cat_offset + name_offset, cat_idx, slot, eff
V2_offset_of(eff, cat_idx, slot, nudge) ==
  [offset_sec |-> cat_idx * V2_CATEGORY_BLOCK_SECONDS
                  + ((slot * V2_SECONDS_BETWEEN_ITEMS) + nudge),
   cat_idx |-> cat_idx, slot |-> slot, eff |-> eff]

V2_offset_of_effective(eff) ==
  V2_offset_of(eff, _category_priority_index(eff),
               V2_slot_index_within_category(eff), _stable_hash01(eff))

V2_deterministic_offset_seconds(folder_name) ==
  V2_offset_of_effective(V2_normalize_name_for_rules(folder_name))

\* datetime(2099, 1, 1, 7, 59, 59, tzinfo=timezone.utc)
V2_FIXED_BASE_UTC == [d |-> 1, s |-> 7 * 3600 + 59 * 60 + 59, us |-> 0]

\* datetime.fromtimestamp(base_utc.timestamp() - offset_sec, tz=timezone.utc)
\* return ts_utc, eff, _category_label_for_effective(eff), cat_idx, slot_idx, offset_sec
V2_projected(d) ==
  [ts |-> AddSeconds(V2_FIXED_BASE_UTC, 0 - d.offset_sec),
   eff |-> d.eff,
   cat_lbl |-> _category_label_for_effective(d.eff),
   cat_idx |-> d.cat_idx, slot_idx |-> d.slot, offset_sec |-> d.offset_sec]

V2_planned_timestamp_for_folder(folder_name) ==
  V2_projected(V2_deterministic_offset_seconds(folder_name))

\* plan.append((name, ts, eff, cat_lbl, cat_idx, slot_idx, offset_sec))
V2_plan_row(name, p) ==
  [name |-> name, ts |-> p.ts, eff |-> p.eff,
   cat_lbl |-> p.cat_lbl, cat_idx |-> p.cat_idx, slot_idx |-> p.slot_idx,
   offset_sec |-> p.offset_sec]

\* Force timestamp to an even second and zero microseconds.
\* if dt.second % 2 == 1: dt += timedelta(seconds=1)
\* (dt.second is the second of the minute)
NextEven(dt) == IF (dt.s % 60) % 2 = 1 THEN AddSeconds(dt, 1) ELSE dt

_snap_even_second(dt) == NextEven([dt EXCEPT !.us = 0])

\* the datetimes _snap_even_second is applied to on its own: the seconds
\* around midnight of an ordinary day and of the first and the last day,
\* whole and with a fraction
SnapDays == {MinDay, 0, MaxDay}
SnapSeconds == (0..(2 * 60 + 1)) \cup ((DaySeconds - 2 * 60)..(DaySeconds - 1))
SnapMicroseconds == {0, 1, 1000000 - 1}
SnapInputs == {<<dt>> : dt \in [d : SnapDays, s : SnapSeconds, us : SnapMicroseconds]}

\* datetime order
DtLess(a, b) ==
  \/ a.d < b.d
  \/ a.d = b.d /\ a.s < b.s
  \/ a.d = b.d /\ a.s = b.s /\ a.us < b.us

\* sorted(plan, key=lambda x: x[1], reverse=True): a stable sort, so entries
\* of equal instant keep their order in plan
SortedNewestFirst(p) ==
  LET before(i, j) == DtLess(p[j].ts, p[i].ts) \/ (p[i].ts = p[j].ts /\ i < j)
      rank(i)      == Cardinality({j \in 1..Len(p) : j # i /\ before(j, i)})
  IN  Tuple([k \in 1..Len(p) |-> p[CHOOSE i \in 1..Len(p) : rank(i) = k - 1]])

(***************************************************************************)
(* main()                                                                  *)
(***************************************************************************)
Loaded(run) ==
  /\ UNPREFIXED_MAP = run.map
  /\ SECONDS_BETWEEN_ITEMS = DEFAULT_SECONDS_BETWEEN_ITEMS
  /\ SLOTS_PER_CATEGORY = DEFAULT_SLOTS_PER_CATEGORY
  /\ CATEGORY_BLOCK_SECONDS = DEFAULT_SLOTS_PER_CATEGORY * DEFAULT_SECONDS_BETWEEN_ITEMS
  /\ ENABLE_STABLE_NUDGE = FALSE
  /\ args = run.args
  /\ utcoffset = run.tz
  /\ root_folders = run.folders
  /\ idx = 1
  /\ plan = <<>>
  /\ plan_sorted = <<>>
  /\ calls = <<>>
  /\ tree = run.tree
  /\ failing = run.failing
  /\ reruns = run.reruns
  /\ earlier = <<>>

Imported(run) == Loaded(run) /\ pc = "start"

\* the module is imported and main() is not run
Idle ==
  /\ Loaded([map |-> SourceAliasMap, tz |-> 0,
             args |-> CHOOSE a \in DefaultArgs : ~a.dry_run, folders |-> <<>>,
             tree |-> NoContents, failing |-> {}, reruns |-> 0])
  /\ pc = "idle"

Init ==
  /\ enc_in = <<>>
  /\ enc_out = <<>>
  /\ snap_out = <<>>
  /\ \/ (\E run \in Runs : Imported(run)) /\ snap_in = <<>>
     \/ Idle /\ snap_in \in SnapInputs

\* The tool is run once more: a new process imports the module, with the same
\* command line; the local time zone is the same and the offset in force is
\* one of its offsets; the root folders are listed again.
Rerun ==
  /\ pc = "done"
  /\ reruns > 0
  /\ reruns' = reruns - 1
  /\ earlier' = <<[plan |-> plan, utcoffset |-> utcoffset, root_folders |-> root_folders]>>
  /\ root_folders' \in ListsOver(Range(root_folders), Len(root_folders))
  /\ utcoffset' \in ZoneOf(utcoffset)
  /\ SECONDS_BETWEEN_ITEMS' = DEFAULT_SECONDS_BETWEEN_ITEMS
  /\ SLOTS_PER_CATEGORY' = DEFAULT_SLOTS_PER_CATEGORY
  /\ CATEGORY_BLOCK_SECONDS' = DEFAULT_SLOTS_PER_CATEGORY * DEFAULT_SECONDS_BETWEEN_ITEMS
  /\ ENABLE_STABLE_NUDGE' = FALSE
  /\ pc' = "start"
  /\ idx' = 1
  /\ plan' = <<>>
  /\ plan_sorted' = <<>>
  /\ calls' = <<>>
  /\ UNCHANGED <<UNPREFIXED_MAP, args, tree, failing, callvars>>

\* a non-positive spacing or slot budget: sys.exit(1)
RejectArgs ==
  /\ pc = "start"
  /\ args.seconds_between_items <= 0 \/ args.slots_per_category <= 0
  /\ pc' = "exit"
  /\ UNCHANGED <<UNPREFIXED_MAP, SECONDS_BETWEEN_ITEMS, SLOTS_PER_CATEGORY,
                 CATEGORY_BLOCK_SECONDS, ENABLE_STABLE_NUDGE, args, utcoffset,
                 root_folders, idx, plan, plan_sorted, calls, hostvars, callvars>>

\* _recompute_spacing and ENABLE_STABLE_NUDGE = args.stable_nudge
Configure ==
  /\ pc = "start"
  /\ args.seconds_between_items > 0
  /\ args.slots_per_category > 0
  /\ SECONDS_BETWEEN_ITEMS' = args.seconds_between_items
  /\ SLOTS_PER_CATEGORY' = args.slots_per_category
  /\ CATEGORY_BLOCK_SECONDS' = args.slots_per_category * args.seconds_between_items
  /\ ENABLE_STABLE_NUDGE' = args.stable_nudge
  /\ pc' = "plan"
  /\ UNCHANGED <<UNPREFIXED_MAP, args, utcoffset, root_folders, idx, plan,
                 plan_sorted, calls, hostvars, callvars>>

\* if args.ps2_bias_seconds: ts = ts + timedelta(seconds=args.ps2_bias_seconds)
\* (an exception raised before leaves the try block at once)
Biased(ts) ==
  IF Raised(ts) THEN ts
  ELSE IF args.ps2_bias_seconds # WideInt(0)
         THEN AddDelta(ts, timedelta(args.ps2_bias_seconds))
         ELSE ts

\* if args.fat_safe: ts = _snap_even_second(ts)
Snapped(ts) ==
  IF Raised(ts) THEN ts
  ELSE IF args.fat_safe THEN _snap_even_second(ts) ELSE ts

\* (name, ts, eff, cat_lbl, cat_idx, slot_idx, offset_sec)
PlanRow(name, p) ==
  [name |-> name, ts |-> Snapped(Biased(p.ts)), eff |-> p.eff,
   cat_lbl |-> p.cat_lbl, cat_idx |-> p.cat_idx, slot_idx |-> p.slot_idx,
   offset_sec |-> p.offset_sec]

\* a variant of Planned in which a failure empties the plan
PlannedOrNone(rows, row) == IF Raised(row.ts) THEN <<>> ELSE Append(rows, row)

\* except Exception: [WARN] ...; continue
\* plan.append((name, ts, eff, cat_lbl, cat_idx, slot_idx, offset_sec))
Planned(rows, row) == IF Raised(row.ts) THEN rows ELSE Append(rows, row)

\* one iteration of the planning loop
PlanFolder ==
  /\ pc = "plan"
  /\ idx <= Len(root_folders)
  /\ plan' = Planned(plan, PlanRow(root_folders[idx],
                _planned_timestamp_for_folder(root_folders[idx], args.timeline)))
  /\ idx' = idx + 1
  /\ UNCHANGED <<UNPREFIXED_MAP, SECONDS_BETWEEN_ITEMS, SLOTS_PER_CATEGORY,
                 CATEGORY_BLOCK_SECONDS, ENABLE_STABLE_NUDGE, args, utcoffset,
                 root_folders, pc, plan_sorted, calls, hostvars, callvars>>

\* if args.dry_run: _write_dryrun(plan, ...); return
WriteDryrun ==
  /\ pc = "plan"
  /\ idx > Len(root_folders)
  /\ args.dry_run
  /\ plan_sorted' = SortedNewestFirst(plan)
  /\ pc' = "done"
  /\ UNCHANGED <<UNPREFIXED_MAP, SECONDS_BETWEEN_ITEMS, SLOTS_PER_CATEGORY,
                 CATEGORY_BLOCK_SECONDS, ENABLE_STABLE_NUDGE, args, utcoffset,
                 root_folders, idx, plan, calls, hostvars, callvars>>

\* the planning loop ended and this is no dry run: on to the apply loop
StartApply ==
  /\ pc = "plan"
  /\ idx > Len(root_folders)
  /\ ~args.dry_run
  /\ pc' = "apply"
  /\ idx' = 1
  /\ UNCHANGED <<UNPREFIXED_MAP, SECONDS_BETWEEN_ITEMS, SLOTS_PER_CATEGORY,
                 CATEGORY_BLOCK_SECONDS, ENABLE_STABLE_NUDGE, args, utcoffset,
                 root_folders, plan, plan_sorted, calls, hostvars, callvars>>

(***************************************************************************)
(* Walk and set                                                            *)
(***************************************************************************)
RECURSIVE ConcatAll(_)
ConcatAll(seqs) ==
  IF seqs = <<>> THEN <<>> ELSE Head(seqs) \o ConcatAll(Tail(seqs))

\* os.walk(root_folder), top down: the (dirpath, dirnames, filenames) of the
\* directory, then the walk of each of its dirnames that is a directory
RECURSIVE Walk(_)
Walk(dirpath) ==
  <<[dirpath |-> dirpath, dirnames |-> tree[dirpath].dirnames,
     filenames |-> tree[dirpath].filenames]>>
  \o ConcatAll([i \in 1..Len(tree[dirpath].dirnames) |->
                  IF Append(dirpath, tree[dirpath].dirnames[i]) \in DOMAIN tree
                    THEN Walk(Append(dirpath, tree[dirpath].dirnames[i]))
                    ELSE <<>>])

\* try: _set_times_windows(path, dt_utc) except Exception: [WARN] ...
\* (ok: the call returned; the exception of a failing call is caught here)
SetTimes(path, dt_utc, kind) ==
  [path |-> path, ts |-> dt_utc, kind |-> kind, ok |-> path \notin failing]

\* the body of the loop over os.walk: the filenames, then the dirnames
VisitCalls(root_folder, dt_utc, visit) ==
  [i \in 1..Len(visit.filenames) |->
     SetTimes(root_folder \o Append(visit.dirpath, visit.filenames[i]), dt_utc, "file")]
  \o
  [i \in 1..Len(visit.dirnames) |->
     SetTimes(root_folder \o Append(visit.dirpath, visit.dirnames[i]), dt_utc, "dir")]

\* for dirpath, dirnames, filenames in os.walk(root_folder): ...
WalkCalls(root_folder, dt_utc, walk) ==
  ConcatAll([k \in 1..Len(walk) |-> VisitCalls(root_folder, dt_utc, walk[k])])

\* the calls up to the first one that fails
UntilFailure(cs) ==
  IF \E k \in 1..Len(cs) : ~cs[k].ok
    THEN SubSeq(cs, 1, CHOOSE k \in 1..Len(cs) : ~cs[k].ok /\ \A j \in 1..(k - 1) : cs[j].ok)
    ELSE cs

\* a variant that gives up at the first call that fails
StopAtFailure(root_folder, dt_utc) ==
  UntilFailure(WalkCalls(root_folder, dt_utc, Walk(<<>>))
               \o <<SetTimes(root_folder, dt_utc, "ROOT")>>)

\* a variant that sets the root before its contents
RootFirst(root_folder, dt_utc) ==
  <<SetTimes(root_folder, dt_utc, "ROOT")>>
  \o WalkCalls(root_folder, dt_utc, Walk(<<>>))

\* Recurse and set times, then set root last (so mtime doesn't bump)
_set_folder_and_contents_times(root_folder, dt_utc) ==
  WalkCalls(root_folder, dt_utc, Walk(<<>>))
  \o <<SetTimes(root_folder, dt_utc, "ROOT")>>

\* one iteration of the apply loop:
\* full = os.path.join(base_path, name); _set_folder_and_contents_times(full, ts)
ApplyEntry ==
  /\ pc = "apply"
  /\ idx <= Len(plan)
  /\ calls' = calls \o _set_folder_and_contents_times(<<plan[idx].name>>, plan[idx].ts)
  /\ idx' = idx + 1
  /\ UNCHANGED <<UNPREFIXED_MAP, SECONDS_BETWEEN_ITEMS, SLOTS_PER_CATEGORY,
                 CATEGORY_BLOCK_SECONDS, ENABLE_STABLE_NUDGE, args, utcoffset,
                 root_folders, pc, plan, plan_sorted, hostvars, callvars>>

FinishApply ==
  /\ pc = "apply"
  /\ idx > Len(plan)
  /\ pc' = "done"
  /\ UNCHANGED <<UNPREFIXED_MAP, SECONDS_BETWEEN_ITEMS, SLOTS_PER_CATEGORY,
                 CATEGORY_BLOCK_SECONDS, ENABLE_STABLE_NUDGE, args, utcoffset,
                 root_folders, idx, plan, plan_sorted, calls, hostvars, callvars>>

\* _snap_even_second(dt), and the result snapped once more
SnapTwice(once) == <<once, IF Raised(once) THEN once ELSE _snap_even_second(once)>>

Snap ==
  /\ snap_in # <<>>
  /\ snap_out = <<>>
  /\ snap_out' = SnapTwice(_snap_even_second(snap_in[1]))
  /\ UNCHANGED <<mainvars, enc_in, enc_out, snap_in>>

Next ==
  \/ Snap
  \/ RejectArgs
  \/ Configure
  \/ PlanFolder
  \/ WriteDryrun
  \/ StartApply
  \/ ApplyEntry
  \/ FinishApply
  \/ Rerun

Spec == Init /\ [][Next]_vars

(***************************************************************************)
(* The encoder applied to two payloads.                                    *)
(***************************************************************************)
EncInit ==
  /\ Idle
  /\ enc_in \in EncPayloads \X EncPayloads
  /\ enc_out = <<>>
  /\ snap_in = <<>>
  /\ snap_out = <<>>

Encode ==
  /\ enc_in # <<>>
  /\ enc_out = <<>>
  /\ enc_out' = <<LexFraction(enc_in[1]), LexFraction(enc_in[2])>>
  /\ UNCHANGED <<mainvars, enc_in, snap_in, snap_out>>

EncNext == Encode

EncSpec == EncInit /\ [][EncNext]_vars

(***************************************************************************)
(* Properties of the encoder (under EncSpec)                               *)
(***************************************************************************)
\* the alphabet indices of the significant characters of a payload
Digits(p) ==
  Tuple([i \in 1..Min(Len(p), SigLen) |-> CHAR_INDEX_get(UpperChar(p[i]))])

\* u < v in lexicographic order
LexLess(u, v) ==
  \E k \in 0..Min(Len(u), Len(v)) :
    /\ SubSeq(u, 1, k) = SubSeq(v, 1, k)
    /\ \/ k = Len(u) /\ k < Len(v)
       \/ k < Len(u) /\ k < Len(v) /\ u[k + 1] < v[k + 1]

IsProperPrefix(u, v) == Len(u) < Len(v) /\ SubSeq(v, 1, Len(u)) = u

\* C1: of two encoded payloads the lexicographically smaller one (by alphabet
\* index, upper-cased, truncated) has the strictly smaller fraction, and two
\* equal fractions come from identical mapped payloads.
C1_OrderPreserved ==
  enc_out # <<>> =>
    /\ LexLess(Digits(enc_in[1]), Digits(enc_in[2])) => FLess(enc_out[1], enc_out[2])
    /\ enc_out[1] = enc_out[2] => Digits(enc_in[1]) = Digits(enc_in[2])

\* C2: every fraction f satisfies 0 <= f < 1, the empty payload encodes to 0,
\* and a proper extension of a payload encodes strictly greater than it.
C2_RangeAndExtension ==
  enc_out # <<>> =>
    /\ ~FLess(enc_out[1], FZero)
    /\ FLess(enc_out[1], FOne)
    /\ enc_in[1] = <<>> => enc_out[1] = FZero
    /\ IsProperPrefix(enc_in[1], enc_in[2]) => FLess(enc_out[1], enc_out[2])

(***************************************************************************)
(* Properties of the plan (under Spec)                                     *)
(***************************************************************************)
PlanIndices == 1..Len(plan)

PayloadOf(e) == _payload_for_effective(e.eff)

\* the nudge that went into an entry's offset
NudgeOf(e) ==
  e.offset_sec - e.cat_idx * CATEGORY_BLOCK_SECONDS - e.slot_idx * SECONDS_BETWEEN_ITEMS

\* C3: for two entries of one category with payloads pa < pb, slot(a) <= slot(b)
\* and the instant planned for a is strictly newer than the one planned for b,
\* or equal when the nudge is disabled and both have the same slot; under both
\* timelines.  (Stated on runs without bias and snapping, where the instant of
\* the entry is the planned one.)
C3_WithinCategoryOrder ==
  (~args.fat_safe /\ args.ps2_bias_seconds = WideInt(0)) =>
    \A i, j \in PlanIndices :
      (/\ plan[i].cat_idx = plan[j].cat_idx
       /\ LexLess(Digits(PayloadOf(plan[i])), Digits(PayloadOf(plan[j])))) =>
        /\ plan[i].slot_idx <= plan[j].slot_idx
        /\ \/ DtLess(plan[j].ts, plan[i].ts)
           \/ /\ plan[i].ts = plan[j].ts
              /\ ~ENABLE_STABLE_NUDGE
              /\ plan[i].slot_idx = plan[j].slot_idx

\* C4: under fixed-utc, an entry of a category earlier in CATEGORY_ORDER has a
\* final instant strictly newer than any entry of a later category, for every
\* spacing, slot budget, nudge, bias and snapping.
C4_CategoryPrecedence ==
  args.timeline = "fixed-utc" =>
    \A i, j \in PlanIndices :
      plan[i].cat_idx < plan[j].cat_idx => DtLess(plan[j].ts, plan[i].ts)

\* C5: under local-forward an entry of lower category rank is never older than
\* an entry of higher rank, so the rows sorted newest first are in rank order.
C5_ForwardSameOrder ==
  args.timeline = "local-forward" =>
    /\ \A i, j \in PlanIndices :
         plan[i].cat_idx < plan[j].cat_idx => ~DtLess(plan[i].ts, plan[j].ts)
    /\ \A k, l \in 1..Len(plan_sorted) :
         k < l => plan_sorted[k].cat_idx <= plan_sorted[l].cat_idx

\* C6: every slot assigned is an integer with 0 <= slot < SLOTS_PER_CATEGORY,
\* also when the fraction is 1 or more.
C6_SlotBound ==
  \A i \in PlanIndices :
    /\ plan[i].slot_idx \in Int
    /\ 0 <= plan[i].slot_idx
    /\ plan[i].slot_idx < SLOTS_PER_CATEGORY

\* an entry whose fraction is 1 or more got the last slot of a budget above 1
C6_Saturated ==
  \E i \in PlanIndices :
    /\ SLOTS_PER_CATEGORY > 1
    /\ ~FLess(LexFraction(PayloadOf(plan[i])), FOne)
    /\ plan[i].slot_idx = SLOTS_PER_CATEGORY - 1

\* C7: the offset of every entry lies in the block of its category:
\* rank * block <= offset < (rank + 1) * block.
C7_OffsetInsideBlock ==
  \A i \in PlanIndices :
    /\ plan[i].cat_idx * CATEGORY_BLOCK_SECONDS <= plan[i].offset_sec
    /\ plan[i].offset_sec < (plan[i].cat_idx + 1) * CATEGORY_BLOCK_SECONDS

\* C8: the nudge is 0 or 1, is 0 when disabled, and when enabled two entries of
\* one category with slot(a) < slot(b) have offset(a) < offset(b).
C8_NudgeKeepsSlotOrder ==
  /\ \A i \in PlanIndices : NudgeOf(plan[i]) \in {0, 1}
  /\ ~ENABLE_STABLE_NUDGE => \A i \in PlanIndices : NudgeOf(plan[i]) = 0
  /\ ENABLE_STABLE_NUDGE =>
       \A i, j \in PlanIndices :
         (plan[i].cat_idx = plan[j].cat_idx /\ plan[i].slot_idx < plan[j].slot_idx)
           => plan[i].offset_sec < plan[j].offset_sec

\* the run of the example, once the four folders are planned
ExamplePlanned ==
  /\ root_folders = ExampleFolders
  /\ Len(plan) = Len(ExampleFolders)
  /\ UNPREFIXED_MAP = SourceAliasMap
  /\ SLOTS_PER_CATEGORY = 43200
  /\ SECONDS_BETWEEN_ITEMS = 2
  /\ args.timeline = "fixed-utc"
  /\ ~ENABLE_STABLE_NUDGE

\* category key, label and rank of an entry
Classified(e, key, label, rank) ==
  /\ _effective_category_key(e.eff) = key
  /\ e.cat_lbl = label
  /\ e.cat_idx = rank
  /\ CATEGORY_ORDER[rank + 1] = key

NamesOf(rows) == Tuple([k \in 1..Len(rows) |-> rows[k].name])

\* C9: in the example OSDXMB is APP_ (rank 0), BOOT is SYS_BOOT in SYS_ (rank
\* 10), RANDOMFOLDER is DEFAULT (rank 9), ZZZ_CUSTOM is ZZZ_ (rank 12), and the
\* plan sorted newest first is OSDXMB, RANDOMFOLDER, BOOT, ZZZ_CUSTOM.
C9_Example ==
  ExamplePlanned =>
    /\ Classified(plan[1], K_APP_, K_APP_ \o <<"*">>, 0)
    /\ Classified(plan[2], K_SYS_, K_SYS_ \o <<"*">>, 10)
    /\ plan[2].eff = K_SYS_ \o ExampleFolders[2]
    /\ Classified(plan[3], K_DEFAULT, K_DEFAULT, 9)
    /\ Classified(plan[4], K_ZZZ_, K_ZZZ_ \o <<"*">>, 12)
    /\ NamesOf(SortedNewestFirst(plan)) =
         <<ExampleFolders[1], ExampleFolders[3], ExampleFolders[2], ExampleFolders[4]>>
    /\ (pc = "done" /\ args.dry_run) =>
         NamesOf(plan_sorted) =
           <<ExampleFolders[1], ExampleFolders[3], ExampleFolders[2], ExampleFolders[4]>>

\* the dry run of the example has written its rows
C9_ExampleWritten ==
  ExamplePlanned /\ pc = "done" /\ args.dry_run /\ Len(plan_sorted) = Len(ExampleFolders)

\* the name of an entry as the rules see it, and the categories listing n
RuleName(e) == upper(strip(e.name))
Listing(n) == {k \in 1..Len(UNPREFIXED_MAP) : n \in UNPREFIXED_MAP[k].names}

\* n starts with one of the prefixes of CATEGORY_ORDER
HasKnownPrefix(n) ==
  \E k \in 1..Len(CATEGORY_ORDER) :
    CATEGORY_ORDER[k] \notin {K_APPS, K_DEFAULT} /\ startswith(n, CATEGORY_ORDER[k])

\* n is in no alias set and no built-in default and has no known prefix
Unknown(n, hits) ==
  hits = {} /\ BuiltinDefault(n) = n /\ ~HasKnownPrefix(n)

\* e, of name n, is resolved as an alias of the category at position k of the
\* alias map, and has the key `key`
AliasOf(e, n, key, k) ==
  /\ e.eff = IF UNPREFIXED_MAP[k].key = K_APPS THEN K_APPS
             ELSE UNPREFIXED_MAP[k].key \o n
  /\ key = UNPREFIXED_MAP[k].key

\* key is exactly one key of CATEGORY_ORDER, and the rank of e is its index
OneKey(e, key) ==
  /\ Cardinality({k \in 1..Len(CATEGORY_ORDER) : CATEGORY_ORDER[k] = key}) = 1
  /\ e.cat_idx \in 0..(Len(CATEGORY_ORDER) - 1)
  /\ CATEGORY_ORDER[e.cat_idx + 1] = key

EveryListing(e, n, hits, key) ==
  /\ \A k \in hits : AliasOf(e, n, key, k)
  /\ Unknown(n, hits) => (e.eff = n /\ key = K_DEFAULT)
  /\ OneKey(e, key)

FirstListing(e, n, hits, key) ==
  /\ hits # {} => AliasOf(e, n, key, CHOOSE k \in hits : \A l \in hits : k <= l)
  /\ Unknown(n, hits) =>
       /\ e.eff = n
       /\ key = IF n = K_APPS THEN K_APPS ELSE IF n = K_SYS THEN K_SYS_ ELSE K_DEFAULT
  /\ OneKey(e, key)

\* C10 as stated: a name listed in the alias set of K resolves to K's prefix +
\* name (APPS for APPS) and classifies as K; a name in no alias set and no
\* built-in default, without known prefix, stays as it is and is DEFAULT; every
\* effective name has exactly one key of CATEGORY_ORDER, its rank the index.
C10_EveryListing ==
  \A i \in PlanIndices :
    EveryListing(plan[i], RuleName(plan[i]), Listing(RuleName(plan[i])),
                 _effective_category_key(plan[i].eff))

\* C10, amended: the FIRST category of the alias table listing the name decides,
\* and the names APPS and SYS themselves are classified as APPS and SYS_.
C10_FirstListing ==
  \A i \in PlanIndices :
    FirstListing(plan[i], RuleName(plan[i]), Listing(RuleName(plan[i])),
                 _effective_category_key(plan[i].eff))

\* an entry whose name two categories of the alias table list
C10_ListedTwice ==
  \E i \in PlanIndices : Cardinality(Listing(RuleName(plan[i]))) > 1

(***************************************************************************)
(* Even-second snapping                                                    *)
(***************************************************************************)
\* the seconds component of a datetime is odd
OddSecond(dt) == (dt.s % 60) % 2 = 1

\* the whole second after the one dt is in
NextWhole(dt) == Normalized(dt.d, dt.s + 1, 0)

\* dt is in the last second of datetime.max, 9999-12-31 23:59:59
LastSecond(dt) == dt.d = MaxDay /\ dt.s = DaySeconds - 1

EvenWhole(dt) == ~Raised(dt) /\ ~OddSecond(dt) /\ dt.us = 0

\* with --fat-safe every entry of the plan has an even whole second
PlanSnapped ==
  args.fat_safe => \A i \in 1..Len(plan) : EvenWhole(plan[i].ts)

\* C11: every datetime of odd second is snapped to exactly the next
\* second, even and whole; an even whole datetime is unchanged; snapping twice
\* is snapping once; with --fat-safe every entry of the plan is even.
C11_SnapAnyInstant ==
  /\ snap_out # <<>> =>
       /\ OddSecond(snap_in[1]) =>
            (snap_out[1] = NextWhole(snap_in[1]) /\ EvenWhole(snap_out[1]))
       /\ EvenWhole(snap_in[1]) => snap_out[1] = snap_in[1]
       /\ snap_out[2] = snap_out[1]
  /\ PlanSnapped

\* what the snapping does: the same, except that in the last second of
\* datetime.max the next second does not exist and OverflowError is raised
SnapRepresentable ==
  /\ snap_out # <<>> =>
       /\ OddSecond(snap_in[1]) =>
            IF LastSecond(snap_in[1]) THEN Raised(snap_out[1])
            ELSE snap_out[1] = NextWhole(snap_in[1]) /\ EvenWhole(snap_out[1])
       /\ ~OddSecond(snap_in[1]) =>
            snap_out[1] = [snap_in[1] EXCEPT !.us = 0]
       /\ EvenWhole(snap_in[1]) => snap_out[1] = snap_in[1]
       /\ snap_out[2] = snap_out[1]
  /\ PlanSnapped

\* a datetime in the last second of a minute, with a fraction, was snapped
OddSnapped ==
  /\ snap_out # <<>>
  /\ snap_in[1].s % 60 = 59
  /\ snap_in[1].us > 0
  /\ ~Raised(snap_out[1])

(***************************************************************************)
(* Applying the plan                                                       *)
(***************************************************************************)
\* the number of entries of the plan applied so far
AppliedCount ==
  IF pc = "apply" THEN idx - 1
  ELSE IF pc = "done" /\ ~args.dry_run THEN Len(plan) ELSE 0

\* the positions in calls of the calls on a path
CallsAt(path) == {k \in 1..Len(calls) : calls[k].path = path}

\* the root folder of an entry and everything in it
PathsOfEntry(e) == {<<e.name>>} \cup {<<e.name>> \o q : q \in Contents(tree)}

\* C12: when an entry is applied, the times are set once on every file and
\* subdirectory below the root folder and once on the root folder, and the
\* call on the root folder comes after the calls on everything below it, also
\* when calls fail.
C12_RootLast ==
  \A i \in 1..AppliedCount :
    /\ \A p \in PathsOfEntry(plan[i]) : Cardinality(CallsAt(p)) = 1
    /\ \A k \in CallsAt(<<plan[i].name>>) :
         /\ calls[k].kind = "ROOT"
         /\ \A q \in Contents(tree) : \A j \in CallsAt(<<plan[i].name>> \o q) : j < k

\* a run is over in which a call two levels below a root folder failed and the
\* root folder was set
C12_RootSetAfterFailure ==
  /\ pc = "done"
  /\ \E j, k \in 1..Len(calls) :
       /\ j < k
       /\ Len(calls[j].path) = 3 /\ ~calls[j].ok
       /\ calls[k].path = <<calls[j].path[1]>> /\ calls[k].ok

\* the paths attempted, each with the instant it was attempted with
Attempted == {[path |-> calls[k].path, ts |-> calls[k].ts] : k \in 1..Len(calls)}

\* every path of the first n entries, with the instant planned for its entry
ToAttempt(n) ==
  UNION {{[path |-> p, ts |-> plan[i].ts] : p \in PathsOfEntry(plan[i])} : i \in 1..n}

\* C13: whichever calls fail, the run goes on: the paths attempted are every
\* root folder, file and subdirectory of the entries applied, each with the
\* instant planned for its entry, and at the end those of the whole plan.
C13_FailuresAreLocal ==
  /\ Attempted = ToAttempt(AppliedCount)
  /\ Len(calls) = Cardinality(ToAttempt(AppliedCount))
  /\ (pc = "done" /\ ~args.dry_run) => AppliedCount = Len(plan)

\* a run on two folders is over in which the first call failed
C13_WentOnAfterFailure ==
  /\ pc = "done"
  /\ Len(plan) = 2
  /\ Len(calls) > 2
  /\ ~calls[1].ok
  /\ calls[Len(calls)].path = <<plan[2].name>>

(***************************************************************************)
(* Runs compared                                                           *)
(***************************************************************************)
\* the entries of the same name of this run and of the run before are the same
SameEntries ==
  \A i \in 1..Len(plan) : \A j \in 1..Len(earlier[1].plan) :
    plan[i].name = earlier[1].plan[j].name => plan[i] = earlier[1].plan[j]

\* C14: with the same command line and the same time zone, the entry of a name
\* is the same in two runs, whatever the other names and their order are.
C14_SameEntries == earlier # <<>> => SameEntries

\* what the code gives: the same entries when the offset in force is the same
\* in both runs, or under fixed-utc
SameOffsetSameEntries ==
  (/\ earlier # <<>>
   /\ args.timeline = "fixed-utc" \/ earlier[1].utcoffset = utcoffset) => SameEntries

\* the names the planning loop is done with: all of them after the loop
NamesDone == SubSeq(root_folders, 1, idx - 1)

\* projection, bias and snapping of a name raise nothing
Succeeds(name) ==
  ~Raised(PlanRow(name, _planned_timestamp_for_folder(name, args.timeline)).ts)

\* C17: the plan holds one entry for each name whose computation succeeded and
\* none for a name whose computation failed, in input order, and the entries
\* of the other names are those of a run without the name that failed.
C17_PlanOfSucceeded ==
  /\ pc = "plan" =>
       /\ NamesOf(plan) = SelectSeq(NamesDone, Succeeds)
       /\ \A i \in 1..Len(plan) : ~Raised(plan[i].ts)
  /\ (earlier # <<>> /\ earlier[1].utcoffset = utcoffset) => SameEntries

\* the first of two names failed and the second has its entry, and in the run
\* after it, on the second name alone, that name has the same entry
C17_SkippedOne ==
  /\ pc = "plan"
  /\ idx > Len(root_folders)
  /\ earlier # <<>>
  /\ Len(earlier[1].root_folders) = 2
  /\ Len(earlier[1].plan) = 1
  /\ earlier[1].plan[1].name = earlier[1].root_folders[2]
  /\ root_folders = <<earlier[1].root_folders[2]>>
  /\ earlier[1].utcoffset = utcoffset
  /\ plan = earlier[1].plan

(***************************************************************************)
(* Long names                                                              *)
(***************************************************************************)
\* u and v are the same in their first n characters
SameUpTo(u, v, n) ==
  SubSeq(u, 1, Min(Len(u), n)) = SubSeq(v, 1, Min(Len(v), n))

\* no dash in the name and no blank at its ends
PlainName(n) ==
  /\ \A i \in 1..Len(n) : n[i] # "-"
  /\ strip(n) = n

\* C15: two folder names identical up to character 128 that differ only
\* beyond it are assigned the identical slot, with and without a category
\* prefix, with or without dashes among the first 128 characters.
C15_SameHeadSameSlot ==
  \A i \in PlanIndices : \A j \in PlanIndices :
    SameUpTo(plan[i].name, plan[j].name, SigLen) => plan[i].slot_idx = plan[j].slot_idx

\* C15 (amended): two folder names whose payloads are identical up to
\* character 128 are assigned the identical slot, and so are two names
\* identical up to character 128 that hold no dash and no blank at their ends.
C15_SamePayloadHeadSameSlot ==
  \A i \in PlanIndices : \A j \in PlanIndices :
    (\/ SameUpTo(PayloadOf(plan[i]), PayloadOf(plan[j]), SigLen)
     \/ /\ PlainName(plan[i].name) /\ PlainName(plan[j].name)
        /\ SameUpTo(plan[i].name, plan[j].name, SigLen))
    => plan[i].slot_idx = plan[j].slot_idx

\* two names planned whose payloads differ beyond character 128 only
C15_LongPayloadsPlanned ==
  /\ Len(plan) = 2
  /\ Len(PayloadOf(plan[1])) > SigLen
  /\ PayloadOf(plan[1]) # PayloadOf(plan[2])
  /\ SameUpTo(PayloadOf(plan[1]), PayloadOf(plan[2]), SigLen)
  /\ plan[1].slot_idx = plan[2].slot_idx

(***************************************************************************)
(* Collisions                                                              *)
(***************************************************************************)
SameSlot(a, b) == a.cat_idx = b.cat_idx /\ a.slot_idx = b.slot_idx

SameTimestamp(a, b) ==
  a.slot_idx = b.slot_idx /\ NudgeOf(a) = NudgeOf(b) /\ a.ts = b.ts

\* C16: two different raw names that normalize to the same effective name, or
\* whose payloads fall in the same slot of the same category, receive the
\* identical slot, the identical nudge and the identical final instant, with
\* the nudge enabled as well as disabled.
C16_CollisionsIdentical ==
  \A i \in PlanIndices : \A j \in PlanIndices :
    (plan[i].eff = plan[j].eff \/ SameSlot(plan[i], plan[j]))
      => SameTimestamp(plan[i], plan[j])

\* C16 (amended): two raw names of the same effective name receive the
\* identical slot, nudge and final instant, with the nudge enabled as well as
\* disabled; two names in the same slot of the same category receive the
\* identical nudge and final instant when the nudge is disabled, and the 0/1
\* hash of their own effective names as nudge when it is enabled.
C16_SameEffectiveIdentical ==
  \A i \in PlanIndices : \A j \in PlanIndices :
    /\ plan[i].eff = plan[j].eff => SameTimestamp(plan[i], plan[j])
    /\ SameSlot(plan[i], plan[j]) =>
         IF ENABLE_STABLE_NUDGE
           THEN NudgeOf(plan[i]) = _stable_hash01(plan[i].eff)
           ELSE SameTimestamp(plan[i], plan[j])

\* two different raw names of one effective name planned with the nudge
\* enabled, both nudged
C16_SameEffectivePlanned ==
  /\ Len(plan) = 2
  /\ plan[1].name # plan[2].name
  /\ plan[1].eff = plan[2].eff
  /\ ENABLE_STABLE_NUDGE
  /\ NudgeOf(plan[1]) = 1
  /\ SameTimestamp(plan[1], plan[2])

\* two effective names in one slot planned with the nudge disabled
C16_SameSlotPlanned ==
  /\ Len(plan) = 2
  /\ plan[1].eff # plan[2].eff
  /\ SameSlot(plan[1], plan[2])
  /\ ~ENABLE_STABLE_NUDGE
  /\ SameTimestamp(plan[1], plan[2])

(***************************************************************************)
(* The merged script and the original UTC script                           *)
(***************************************************************************)
\* the command line that asks for the behaviour of the original script, with
\* the alias table as the source has it
AsOriginal ==
  /\ pc \in {"plan", "apply", "done"}
  /\ UNPREFIXED_MAP = SourceAliasMap
  /\ args.timeline = "fixed-utc"
  /\ args.seconds_between_items = V2_SECONDS_BETWEEN_ITEMS
  /\ args.slots_per_category = V2_SLOTS_PER_CATEGORY
  /\ args.stable_nudge
  /\ ~args.fat_safe
  /\ args.ps2_bias_seconds = WideInt(0)

\* C18: run with timeline fixed-utc, seconds-between-items 1, slots-per-category
\* 86400 and the stable nudge, no bias and no snapping, the merged script gives
\* every folder name the effective name, category label, rank, slot, offset and
\* UTC instant SAS-TIMESTAMPS-V2.py gives it.
C18_RefinesOriginal ==
  AsOriginal =>
    \A i \in PlanIndices :
      plan[i] = V2_plan_row(plan[i].name, V2_planned_timestamp_for_folder(plan[i].name))

\* the four folders of the example planned as the original script plans them,
\* one of them nudged
C18_ExamplePlannedAsOriginal ==
  /\ AsOriginal
  /\ pc = "done"
  /\ root_folders = ExampleFolders
  /\ Len(plan) = Len(ExampleFolders)
  /\ \E i \in PlanIndices : NudgeOf(plan[i]) = 1
  /\ \A i \in PlanIndices :
       plan[i] = V2_plan_row(plan[i].name, V2_planned_timestamp_for_folder(plan[i].name))

====
